---- MODULE Spec2Model ----
(***************************************************************************)
(* Model of the tree walkers of sunset-blame: sunset-blame-hybrid.py       *)
(* (pygit2 tree walk, fork+exec of `git blame --incremental`, line parser) *)
(* and sunset-blame-pygit2.py (pygit2 tree walk and pygit2 blame hunks).   *)
(* One run of main() over one repository is one behaviour.                 *)
(***************************************************************************)
EXTENDS Integers, Sequences, FiniteSets, TLC

(***************************************************************************)
(* Bounds of the model.                                                    *)
(***************************************************************************)
MaxEntries == 2     \* entries of one tree
MaxDepth == 2       \* nesting of trees below the root tree
MaxNodes == 3       \* entries of the whole repository
MaxHunks == 3       \* hunks git blame reports for one file

(***************************************************************************)
(* pygit2 object kinds (entry.type).                                       *)
(***************************************************************************)
GIT_OBJ_COMMIT == 1
GIT_OBJ_TREE == 2
GIT_OBJ_BLOB == 3
GIT_OBJ_TAG == 4

(***************************************************************************)
(* The repository's history: the commits blame can attribute lines to,     *)
(* each with its (mailmapped) author and its author time in epoch seconds. *)
(***************************************************************************)
Commits == {"c1", "c2", "c3"}

AuthorOf(c) == IF c = "c2" THEN "b" ELSE "a"

AuthorTimeOf(c) ==
    IF c = "c1" THEN 86400 + 3600
    ELSE IF c = "c2" THEN 5 * 86400 + 7200
    ELSE 3 * 86400 + 86399

LineCounts == {2, 6}

\* One attribution record: a hunk of num_lines lines last touched by commit.
Hunks == [commit : Commits, num_lines : LineCounts]

RECURSIVE SeqsUpTo(_, _)
SeqsUpTo(S, n) ==
    IF n = 0 THEN {<<>>}
    ELSE LET shorter == SeqsUpTo(S, n - 1)
         IN  shorter \cup {Append(s, x) : s \in {t \in shorter : Len(t) = n - 1}, x \in S}

\* What the attribution source can report for one file.
BlameResults == SeqsUpTo(Hunks, MaxHunks)

(***************************************************************************)
(* Python helpers.                                                         *)
(***************************************************************************)
\* os.path.join(parent_dirs, entry.name) for a name without a slash.
PathJoin(parent_dirs, name) ==
    IF parent_dirs = "" THEN name ELSE parent_dirs \o "/" \o name

\* datetime.datetime.utcfromtimestamp(i).toordinal(), for i >= 0:
\* date(1970, 1, 1).toordinal() = 719163.
epoch_to_date_ordinal(i) == 719163 + (i \div 86400)

\* collections.Counter, as the sequence of its items in insertion order.
RECURSIVE CounterIndex(_, _, _)
CounterIndex(counter, key, i) ==
    IF i > Len(counter) THEN 0
    ELSE IF counter[i].key = key THEN i
    ELSE CounterIndex(counter, key, i + 1)

\* counter[key] += n
CounterAdd(counter, key, n) ==
    LET i == CounterIndex(counter, key, 1)
    IN  IF i = 0 THEN Append(counter, [key |-> key, n |-> n])
        ELSE [counter EXCEPT ![i].n = @ + n]

\* sum(counter.values())
RECURSIVE CounterTotal(_)
CounterTotal(counter) ==
    IF counter = <<>> THEN 0
    ELSE Head(counter).n + CounterTotal(Tail(counter))

\* sum(counter.elements()): every key repeated count times.
RECURSIVE ElementsSum(_)
ElementsSum(counter) ==
    IF counter = <<>> THEN 0
    ELSE (IF Head(counter).n > 0 THEN Head(counter).key * Head(counter).n ELSE 0)
         + ElementsSum(Tail(counter))

\* len(list(counter.elements())): keys with a count below one are left out.
RECURSIVE ElementsLen(_)
ElementsLen(counter) ==
    IF counter = <<>> THEN 0
    ELSE (IF Head(counter).n > 0 THEN Head(counter).n ELSE 0)
         + ElementsLen(Tail(counter))

\* counter.most_common(1)[0][0]: heapq.nlargest(1, items, key=count), which is
\* max(): the first item, in insertion order, whose count is the largest.
RECURSIVE MostCommonFrom(_, _, _)
MostCommonFrom(counter, best, i) ==
    IF i > Len(counter) THEN counter[best].key
    ELSE IF counter[i].n > counter[best].n THEN MostCommonFrom(counter, i, i + 1)
    ELSE MostCommonFrom(counter, best, i + 1)

\* A faulty variant: the key inserted last, whatever its count.
MostCommon_LastInserted(counter) == counter[Len(counter)].key

\* A faulty variant: among the largest counts, the item inserted last.
RECURSIVE MostCommonLastFrom(_, _, _)
MostCommonLastFrom(counter, best, i) ==
    IF i > Len(counter) THEN counter[best].key
    ELSE IF counter[i].n >= counter[best].n THEN MostCommonLastFrom(counter, i, i + 1)
    ELSE MostCommonLastFrom(counter, best, i + 1)

MostCommon_LastMaximum(counter) == MostCommonLastFrom(counter, 1, 2)

MostCommon(counter) == MostCommonFrom(counter, 1, 2)

\* datetime.date.fromordinal(n), n >= 1: the proleptic Gregorian date whose
\* ordinal is n (day 1 is 0001-01-01), as year, month and day.
FromOrdinal(n) ==
    LET z == n + 305
        era == z \div 146097
        doe == z - era * 146097
        yoe == (doe - (doe \div 1460) + (doe \div 36524) - (doe \div 146096)) \div 365
        doy == doe - (365 * yoe + (yoe \div 4) - (yoe \div 100))
        mp == (5 * doy + 2) \div 153
        d == doy - ((153 * mp + 2) \div 5) + 1
        m == IF mp < 10 THEN mp + 3 ELSE mp - 9
        y == yoe + era * 400 + (IF m <= 2 THEN 1 ELSE 0)
    IN  [year |-> y, month |-> m, day |-> d]

\* A faulty variant: round(mean) in place of int(mean).
MeanOrdinal_Rounded(counter) ==
    (2 * ElementsSum(counter) + ElementsLen(counter)) \div (2 * ElementsLen(counter))

\* A faulty variant: the mean over the buckets, not over the lines.
MeanOrdinal_PerBucket(counter) == ElementsSum(counter) \div Len(counter)

\* int(statistics.mean(counter.elements())): the exact mean, truncated.
MeanOrdinal(counter) == ElementsSum(counter) \div ElementsLen(counter)

(***************************************************************************)
(* The attribution source of the hybrid walker: the lines that             *)
(* `git blame --incremental` prints for a sequence of hunks.  A hunk is a  *)
(* header line "<sha> <orig> <final> <num_lines>", then, only the first    *)
(* time its commit appears in this output, the commit's author,            *)
(* author-mail and author-time lines, and always a closing filename line.  *)
(***************************************************************************)
Line(tag, text, num) == [tag |-> tag, text |-> text, num |-> num]

HunkLines(h, first) ==
    <<Line("header", h.commit, h.num_lines)>>
    \o (IF first
        THEN <<Line("author", AuthorOf(h.commit), 0),
               Line("author-mail", AuthorOf(h.commit), 0),
               Line("author-time", "", AuthorTimeOf(h.commit))>>
        ELSE <<>>)
    \o <<Line("filename", "", 0)>>

RECURSIVE IncrementalFrom(_, _)
IncrementalFrom(hunks, seen) ==
    IF hunks = <<>> THEN <<>>
    ELSE HunkLines(Head(hunks), Head(hunks).commit \notin seen)
         \o IncrementalFrom(Tail(hunks), seen \cup {Head(hunks).commit})

Incremental(hunks) == IncrementalFrom(hunks, {})

(***************************************************************************)
(* The repository: the tree of the revision.  An entry carries its name,   *)
(* its kind, whether its blob is binary, and the tree it names.            *)
(***************************************************************************)
EntryNames == <<"a", "b", "c", "d">>

Entry(type, is_binary, tree) ==
    [name |-> "", type |-> type, is_binary |-> is_binary, tree |-> tree]

LeafEntries ==
    { Entry(GIT_OBJ_COMMIT, FALSE, <<>>),
      Entry(GIT_OBJ_BLOB, TRUE, <<>>),
      Entry(GIT_OBJ_BLOB, FALSE, <<>>),
      Entry(GIT_OBJ_TAG, FALSE, <<>>) }

RECURSIVE TreeSize(_)
TreeSize(tree) ==
    IF tree = <<>> THEN 0
    ELSE 1 + TreeSize(Head(tree).tree) + TreeSize(Tail(tree))

\* The trees of at most k entries, nested at most depth deep, of at most
\* nodes entries in all; the i-th entry of a tree is named EntryNames[i].
RECURSIVE TreesUpTo(_, _, _)
TreesUpTo(depth, nodes, k) ==
    IF k = 0 \/ nodes = 0 THEN {<<>>}
    ELSE LET shorter == TreesUpTo(depth, nodes, k - 1)
             full == {t \in shorter : Len(t) = k - 1 /\ TreeSize(t) < nodes}
             EntriesFor(t) ==
                 LeafEntries \cup
                 (IF depth = 0 THEN {}
                  ELSE {Entry(GIT_OBJ_TREE, FALSE, sub) :
                          sub \in TreesUpTo(depth - 1, nodes - TreeSize(t) - 1, MaxEntries)})
         IN  shorter \cup
             UNION {{Append(t, [e EXCEPT !.name = EntryNames[k]]) : e \in EntriesFor(t)}
                    : t \in full}

Repositories == TreesUpTo(MaxDepth, MaxNodes, MaxEntries)

(***************************************************************************)
(* State of one run.                                                       *)
(***************************************************************************)
VARIABLES
    variant,       \* which walker runs: "hybrid" or "pygit2"
    repo,          \* commit.tree of the revision
    pc,            \* where the run is
    stack,         \* the activations of walk(), innermost last, with their locals
    stdout,        \* hybrid: the lines of p.stdout not yet read
    blame,         \* pygit2: the hunks of the blame not yet iterated
    attribution,   \* the hunks the attribution source reported for the file in hand
    credited,      \* per end of record met: the buckets and the count credited
    blamed,        \* the calls of the attribution source, in order: path, lines
    header,        \* the header row written by main()
    out,           \* the data rows written by walk(), in order
    log,           \* the logging calls made, in order
    exc            \* the exception that ended the run, if any

vars == <<variant, repo, pc, stack, stdout, blame, attribution, credited,
          blamed, header, out, log, exc>>

\* A local variable of walk() that no assignment has bound yet.
Unbound == "<unbound>"
UnboundInt == -1

\* A fresh activation of walk(writer, repo, commit, tree, parent_dirs).
Activation(tree, parent_dirs) ==
    [tree |-> tree, parent_dirs |-> parent_dirs, i |-> 1,
     lines_in_hunk |-> UnboundInt, author |-> Unbound, date |-> UnboundInt,
     authors |-> <<>>, dates |-> <<>>,
     author_mode |-> Unbound, date_mode |-> UnboundInt, date_mean |-> UnboundInt]

top == stack[Len(stack)]

\* `for entry in tree` has an entry in hand.
HasEntry == pc = "walk" /\ top.i <= Len(top.tree)

entry == top.tree[top.i]

entry_path == PathJoin(top.parent_dirs, entry.name)

SetTop(f) == [stack EXCEPT ![Len(stack)] = f]

\* The loop of the innermost activation moves on to its next entry.
NextEntry(f) == SetTop([f EXCEPT !.i = @ + 1])

LogEntry(level, what) ==
    log \o <<[level |-> "debug", what |-> "entry_path", path |-> entry_path],
             [level |-> level, what |-> what, path |-> entry_path]>>

Init ==
    /\ variant \in {"hybrid", "pygit2"}
    /\ repo \in Repositories
    /\ pc = "main"
    /\ stack = <<>>
    /\ stdout = <<>>
    /\ blame = <<>>
    /\ attribution = <<>>
    /\ credited = <<>>
    /\ blamed = <<>>
    /\ header = <<>>
    /\ out = <<>>
    /\ log = <<>>
    /\ exc = "none"

\* main(): write the header row and call walk() on the revision's tree.
Main ==
    /\ pc = "main"
    /\ header' = <<"DATE(MEAN)", "DATE(MODE)", "WHO(MODE)", "PATH">>
    /\ stack' = <<Activation(repo, "")>>
    /\ pc' = "walk"
    /\ UNCHANGED <<variant, repo, stdout, blame, attribution, credited,
                   blamed, out, log, exc>>

\* A faulty variant: the recursion is given the entry's name as prefix, not
\* the entry's path.
EnterTree_NameAsPrefix ==
    /\ HasEntry
    /\ entry.type = GIT_OBJ_TREE
    /\ stack' = Append(stack, Activation(entry.tree, entry.name))
    /\ log' = Append(log, [level |-> "debug", what |-> "entry_path", path |-> entry_path])
    /\ UNCHANGED <<variant, repo, pc, stdout, blame, attribution, credited,
                   blamed, header, out, exc>>

\* entry.type == GIT_OBJ_TREE: recurse with the entry's path as prefix.
EnterTree ==
    /\ HasEntry
    /\ entry.type = GIT_OBJ_TREE
    /\ stack' = Append(stack, Activation(entry.tree, entry_path))
    /\ log' = Append(log, [level |-> "debug", what |-> "entry_path", path |-> entry_path])
    /\ UNCHANGED <<variant, repo, pc, stdout, blame, attribution, credited,
                   blamed, header, out, exc>>

\* The for loop of an activation is exhausted: walk() returns to its caller,
\* whose loop moves on; the outermost return ends main().
Return ==
    /\ pc = "walk"
    /\ top.i > Len(top.tree)
    /\ IF Len(stack) = 1
       THEN /\ stack' = <<>>
            /\ pc' = "done"
       ELSE /\ stack' = [SubSeq(stack, 1, Len(stack) - 1)
                           EXCEPT ![Len(stack) - 1].i = @ + 1]
            /\ pc' = "walk"
    /\ UNCHANGED <<variant, repo, stdout, blame, attribution, credited,
                   blamed, header, out, log, exc>>

\* A faulty variant: a submodule is handed on to code that cannot read it.
SkipSubmodule_Crashes ==
    /\ HasEntry
    /\ entry.type = GIT_OBJ_COMMIT
    /\ log' = Append(log, [level |-> "debug", what |-> "entry_path", path |-> entry_path])
    /\ blamed' = Append(blamed, [path |-> entry_path, lines |-> 0])
    /\ pc' = "raised"
    /\ exc' = "CalledProcessError"
    /\ UNCHANGED <<variant, repo, stack, stdout, blame, attribution, credited,
                   header, out>>

\* entry.type == GIT_OBJ_COMMIT: a submodule is logged and left alone.
SkipSubmodule ==
    /\ HasEntry
    /\ entry.type = GIT_OBJ_COMMIT
    /\ log' = LogEntry("info", "submodule")
    /\ stack' = NextEntry(top)
    /\ UNCHANGED <<variant, repo, pc, stdout, blame, attribution, credited,
                   blamed, header, out, exc>>

\* entry.type == GIT_OBJ_BLOB and blob.is_binary: logged and left alone.
SkipBinary ==
    /\ HasEntry
    /\ entry.type = GIT_OBJ_BLOB
    /\ entry.is_binary
    /\ log' = LogEntry("info", "binary")
    /\ stack' = NextEntry(top)
    /\ UNCHANGED <<variant, repo, pc, stdout, blame, attribution, credited,
                   blamed, header, out, exc>>

\* A faulty variant: an entry of unknown kind is logged and passed over.
UnknownType_Ignored ==
    /\ HasEntry
    /\ entry.type \notin {GIT_OBJ_TREE, GIT_OBJ_COMMIT, GIT_OBJ_BLOB}
    /\ log' = LogEntry("info", "unknown")
    /\ stack' = NextEntry(top)
    /\ UNCHANGED <<variant, repo, pc, stdout, blame, attribution, credited,
                   blamed, header, out, exc>>

\* The else branch: raise Exception('Unknown TreeEntry type', ...), which no
\* caller catches.
UnknownType ==
    /\ HasEntry
    /\ entry.type \notin {GIT_OBJ_TREE, GIT_OBJ_COMMIT, GIT_OBJ_BLOB}
    /\ log' = Append(log, [level |-> "debug", what |-> "entry_path", path |-> entry_path])
    /\ pc' = "raised"
    /\ exc' = "Exception"
    /\ UNCHANGED <<variant, repo, stack, stdout, blame, attribution, credited,
                   blamed, header, out>>

\* What one end of record (hybrid) or one hunk (pygit2) adds to the counters.
Credit(author, date, lines) == [author |-> author, date |-> date, lines |-> lines]

\* A faulty variant: the counters of the file before are kept.
FreshCounters_Kept(f) == f

\* authors, dates = collections.Counter(), collections.Counter()
FreshCounters(f) == [f EXCEPT !.authors = <<>>, !.dates = <<>>]

\* The lines of a sequence of hunks.
RECURSIVE SumLines(_)
SumLines(hunks) ==
    IF hunks = <<>> THEN 0 ELSE Head(hunks).num_lines + SumLines(Tail(hunks))

IsTextBlob == HasEntry /\ entry.type = GIT_OBJ_BLOB /\ ~entry.is_binary

\* hybrid: subprocess.Popen(['git', 'blame', '--incremental', ...]) and fresh
\* counters; the process prints the incremental form of what it attributes.
Popen ==
    /\ IsTextBlob
    /\ variant = "hybrid"
    /\ \E hunks \in BlameResults :
          /\ stdout' = Incremental(hunks)
          /\ attribution' = hunks
          /\ blamed' = Append(blamed, [path |-> entry_path, lines |-> SumLines(hunks)])
    /\ credited' = <<>>
    /\ stack' = SetTop(FreshCounters(top))
    /\ log' = Append(log, [level |-> "debug", what |-> "entry_path", path |-> entry_path])
    /\ pc' = "parse"
    /\ UNCHANGED <<variant, repo, blame, header, out, exc>>

\* A faulty variant: the date counter counts records, not lines.
AddCredit_CountsRecords(f, c) ==
    [f EXCEPT !.authors = CounterAdd(@, c.author, c.lines),
              !.dates = CounterAdd(@, c.date, 1)]

\* authors[author] += lines; dates[date] += lines
AddCredit(f, c) ==
    [f EXCEPT !.authors = CounterAdd(@, c.author, c.lines),
              !.dates = CounterAdd(@, c.date, c.lines)]

\* The body of `for line in p.stdout` on one line: the locals afterwards.
ParseLine(f, line) ==
    IF line.tag = "header" THEN [f EXCEPT !.lines_in_hunk = line.num]
    ELSE IF line.tag = "author" THEN [f EXCEPT !.author = line.text]
    ELSE IF line.tag = "author-time"
         THEN [f EXCEPT !.date = epoch_to_date_ordinal(line.num)]
    ELSE IF line.tag = "filename"
         THEN AddCredit(f, Credit(f.author, f.date, f.lines_in_hunk))
    ELSE f

\* A local is read before any line bound it: UnboundLocalError.
ReadsUnbound(f, line) ==
    /\ line.tag = "filename"
    /\ f.author = Unbound \/ f.date = UnboundInt \/ f.lines_in_hunk = UnboundInt

\* hybrid: one iteration of `for line in p.stdout`.
ReadLine ==
    /\ pc = "parse"
    /\ stdout # <<>>
    /\ stdout' = Tail(stdout)
    /\ IF ReadsUnbound(top, Head(stdout))
       THEN /\ pc' = "raised"
            /\ exc' = "UnboundLocalError"
            /\ UNCHANGED <<stack, credited>>
       ELSE /\ stack' = SetTop(ParseLine(top, Head(stdout)))
            /\ credited' = IF Head(stdout).tag = "filename"
                           THEN Append(credited, Credit(top.author, top.date, top.lines_in_hunk))
                           ELSE credited
            /\ UNCHANGED <<pc, exc>>
    /\ UNCHANGED <<variant, repo, blame, attribution, blamed, header, out, log>>

\* hybrid: p.wait() finds a non-zero return code: CalledProcessError is
\* raised, and no caller catches it.
BlameFailed ==
    /\ pc = "parse"
    /\ stdout = <<>>
    /\ pc' = "raised"
    /\ exc' = "CalledProcessError"
    /\ UNCHANGED <<variant, repo, stack, stdout, blame, attribution, credited,
                   blamed, header, out, log>>

\* pygit2: repo.blame(entry_path, ...) and fresh counters.
Blame ==
    /\ IsTextBlob
    /\ variant = "pygit2"
    /\ \E hunks \in BlameResults :
          /\ blame' = hunks
          /\ attribution' = hunks
          /\ blamed' = Append(blamed, [path |-> entry_path, lines |-> SumLines(hunks)])
    /\ credited' = <<>>
    /\ stack' = SetTop(FreshCounters(top))
    /\ log' = Append(log, [level |-> "debug", what |-> "entry_path", path |-> entry_path])
    /\ pc' = "hunks"
    /\ UNCHANGED <<variant, repo, stdout, header, out, exc>>

\* pygit2: repo.blame() raises, and no caller catches it.
BlameRaises ==
    /\ IsTextBlob
    /\ variant = "pygit2"
    /\ blamed' = Append(blamed, [path |-> entry_path, lines |-> 0])
    /\ log' = Append(log, [level |-> "debug", what |-> "entry_path", path |-> entry_path])
    /\ pc' = "raised"
    /\ exc' = "GitError"
    /\ UNCHANGED <<variant, repo, stack, stdout, blame, attribution, credited,
                   header, out>>

\* hunk2signature(repo, hunk): the author signature of the hunk's commit.
hunk2signature(hunk) ==
    [name |-> AuthorOf(hunk.commit), time |-> AuthorTimeOf(hunk.commit)]

\* The body of `for hunk in blame` on one hunk: the locals afterwards.
HunkCredit(hunk) ==
    LET signature == hunk2signature(hunk)
    IN  Credit(signature.name, epoch_to_date_ordinal(signature.time), hunk.num_lines)

AddHunk(f, hunk) ==
    AddCredit([f EXCEPT !.author = hunk2signature(hunk).name], HunkCredit(hunk))

\* pygit2: one iteration of `for hunk in blame`.
NextHunk ==
    /\ pc = "hunks"
    /\ blame # <<>>
    /\ blame' = Tail(blame)
    /\ stack' = SetTop(AddHunk(top, Head(blame)))
    /\ credited' = Append(credited, HunkCredit(Head(blame)))
    /\ UNCHANGED <<variant, repo, pc, stdout, attribution, blamed, header, out,
                   log, exc>>

\* The aggregation loop is over (hybrid: and git blame returned 0).
LoopDone ==
    \/ pc = "parse" /\ stdout = <<>>
    \/ pc = "hunks" /\ blame = <<>>

\* A faulty variant: the empty-file test is left out.
IsEmptyFile_Never(dates) == FALSE

\* sum(dates.values()) == 0
IsEmptyFile(dates) == CounterTotal(dates) = 0

\* `ignoring empty file`: continue with the next entry, no row.
SkipEmpty ==
    /\ LoopDone
    /\ IsEmptyFile(top.dates)
    /\ log' = Append(log, [level |-> "info", what |-> "empty", path |-> entry_path])
    /\ stack' = NextEntry(top)
    /\ pc' = "walk"
    /\ attribution' = <<>>
    /\ credited' = <<>>
    /\ UNCHANGED <<variant, repo, stdout, blame, blamed, header, out, exc>>

\* author_mode, date_mode and date_mean of the counters.
Statistics(f) ==
    [f EXCEPT !.author_mode = MostCommon(f.authors),
              !.date_mode = FromOrdinal(MostCommon(f.dates)),
              !.date_mean = FromOrdinal(MeanOrdinal(f.dates))]

\* The three statistics are computed; most_common(1)[0] of an empty counter
\* is an IndexError.
ComputeStatistics ==
    /\ LoopDone
    /\ ~IsEmptyFile(top.dates)
    /\ IF top.authors = <<>> \/ top.dates = <<>>
       THEN /\ pc' = "raised"
            /\ exc' = "IndexError"
            /\ UNCHANGED stack
       ELSE /\ stack' = SetTop(Statistics(top))
            /\ pc' = "row"
            /\ UNCHANGED exc
    /\ UNCHANGED <<variant, repo, stdout, blame, attribution, credited, blamed,
                   header, out, log>>

\* writer.writerow((date_mean, date_mode, author_mode, entry_path)), and the
\* loop moves on.
WriteRow ==
    /\ pc = "row"
    /\ out' = Append(out, [date_mean |-> top.date_mean, date_mode |-> top.date_mode,
                           author_mode |-> top.author_mode, path |-> entry_path])
    /\ stack' = NextEntry(top)
    /\ pc' = "walk"
    /\ attribution' = <<>>
    /\ credited' = <<>>
    /\ UNCHANGED <<variant, repo, stdout, blame, blamed, header, log, exc>>

Next ==
    \/ Main
    \/ EnterTree
    \/ Return
    \/ SkipSubmodule
    \/ SkipBinary
    \/ UnknownType
    \/ Popen
    \/ ReadLine
    \/ BlameFailed
    \/ Blame
    \/ BlameRaises
    \/ NextHunk
    \/ SkipEmpty
    \/ ComputeStatistics
    \/ WriteRow

Spec == Init /\ [][Next]_vars

\* The exit code of the process: 0 when main() returns, 1 when an exception
\* escapes it.
ExitCode == IF pc = "raised" THEN 1 ELSE 0

(***************************************************************************)
(* Vocabulary of the properties.                                           *)
(***************************************************************************)
Last(s) == s[Len(s)]

\* The entries of a tree in depth-first enumeration order, with their paths.
RECURSIVE DepthFirst(_, _)
DepthFirst(tree, parent_dirs) ==
    IF tree = <<>> THEN <<>>
    ELSE LET e == Head(tree)
             path == PathJoin(parent_dirs, e.name)
         IN  <<[path |-> path, type |-> e.type, is_binary |-> e.is_binary]>>
             \o DepthFirst(e.tree, path)
             \o DepthFirst(Tail(tree), parent_dirs)

Entries == DepthFirst(repo, "")

\* The paths walk() has taken in hand, in order (its `entry_path is` lines).
IsVisit(l) == l.what = "entry_path"
Visited == SelectSeq(log, IsVisit)

\* walk() takes the entries in hand in depth-first order, none left out, and
\* a run that returns has taken every one.
VisitedInOrder ==
    /\ Len(Visited) <= Len(Entries)
    /\ \A k \in 1..Len(Visited) : Visited[k].path = Entries[k].path
    /\ pc = "done" => Len(Visited) = Len(Entries)

RowPaths == {out[i].path : i \in 1..Len(out)}
BlamedPaths == {blamed[i].path : i \in 1..Len(blamed)}

\* The author and the date bucket of a hunk's own commit.
OwnAuthor(h) == AuthorOf(h.commit)
OwnDate(h) == epoch_to_date_ordinal(AuthorTimeOf(h.commit))
OwnCredit(h) == Credit(OwnAuthor(h), OwnDate(h), h.num_lines)

\* Calendar order of two dates.
DateLE(d1, d2) ==
    \/ d1.year < d2.year
    \/ d1.year = d2.year /\ d1.month < d2.month
    \/ d1.year = d2.year /\ d1.month = d2.month /\ d1.day <= d2.day

\* Lines credited, and the sum of date bucket times lines, over credits.
RECURSIVE CreditedLines(_)
CreditedLines(cs) ==
    IF cs = <<>> THEN 0 ELSE Head(cs).lines + CreditedLines(Tail(cs))

RECURSIVE CreditedDateSum(_)
CreditedDateSum(cs) ==
    IF cs = <<>> THEN 0
    ELSE Head(cs).date * Head(cs).lines + CreditedDateSum(Tail(cs))

\* The count a counter holds for a key (0 when the key is absent).
CountOf(counter, key) ==
    LET i == CounterIndex(counter, key, 1)
    IN  IF i = 0 THEN 0 ELSE counter[i].n

CounterKeys(counter) == {counter[i].key : i \in 1..Len(counter)}

\* The statistics of the file in hand are computed and about to be written.
AtRow == pc = "row"

\* The row written last is the row of the entry the innermost loop just left.
RowJustWritten ==
    /\ pc = "walk"
    /\ out # <<>>
    /\ top.i > 1
    /\ Last(out).path = PathJoin(top.parent_dirs, top.tree[top.i - 1].name)

\* The row written carries the statistics computed for it.
RowIsStatistics ==
    RowJustWritten =>
        /\ Last(out).date_mean = top.date_mean
        /\ Last(out).date_mode = top.date_mode
        /\ Last(out).author_mode = top.author_mode

(***************************************************************************)
(* Properties.                                                             *)
(***************************************************************************)

\* C1: in the hybrid walker, every end of record credits the hunk's line
\* count to the author bucket and the date bucket of the hunk's own commit,
\* also when the commit's author lines were printed with an earlier hunk.
C1_CreditsOwnCommit ==
    variant = "hybrid" =>
        /\ Len(credited) <= Len(attribution)
        /\ \A i \in 1..Len(credited) : credited[i] = OwnCredit(attribution[i])

\* C1, the case: a third hunk of the commit of the first, after a hunk of
\* another commit, has been credited.
C1_RepeatedCommitCredited ==
    /\ variant = "hybrid"
    /\ Len(credited) = 3
    /\ attribution[1].commit = attribution[3].commit
    /\ attribution[2].commit # attribution[1].commit

\* C2: while and after the hunks of a file are aggregated, the date counts
\* and the author counts both sum to the lines of the hunks credited so far,
\* and when the loop is over every hunk has been credited.
C2_CountersAgree ==
    pc \in {"parse", "hunks", "row"} =>
        /\ Len(credited) <= Len(attribution)
        /\ CounterTotal(top.dates) = CounterTotal(top.authors)
        /\ CounterTotal(top.dates) = SumLines(SubSeq(attribution, 1, Len(credited)))
        /\ (LoopDone \/ AtRow) => Len(credited) = Len(attribution)

C2_Witness ==
    /\ AtRow
    /\ Len(attribution) = 3
    /\ CounterTotal(top.dates) = 10
    /\ Len(top.dates) = 2
    /\ Len(top.authors) = 1

\* C3: a failing git blame for one file does not end the run: no
\* CalledProcessError escapes walk().
C3_BlameFailureSkipsFile == exc # "CalledProcessError"

\* C4: a text blob whose attribution is empty gets no row, the statistics of
\* an empty counter are never computed, and unless the attribution source
\* itself failed the walk goes on to the entries after it.
C4_EmptyFileSkipped ==
    /\ exc # "IndexError"
    /\ AtRow => attribution # <<>> /\ top.dates # <<>> /\ top.authors # <<>>
    /\ VisitedInOrder
    /\ \A i \in 1..Len(blamed) :
          blamed[i].lines = 0 =>
              /\ blamed[i].path \notin RowPaths
              /\ (pc = "raised" /\ Last(Visited).path = blamed[i].path)
                     => exc \in {"CalledProcessError", "GitError"}

C4_Witness ==
    /\ exc = "none"
    /\ Len(blamed) = 1
    /\ blamed[1].lines = 0
    /\ Len(Visited) >= 2
    /\ Visited[1].path = blamed[1].path
    /\ Len(log) >= 2 /\ log[2].what = "empty"

\* C5: a submodule or a binary blob is never handed to the attribution
\* source, gets no row, ends no run, and the entries after it are taken in
\* hand in turn.
C5_SubmoduleAndBinarySkipped ==
    /\ VisitedInOrder
    /\ \A k \in 1..Len(Visited) :
          (Entries[k].type = GIT_OBJ_COMMIT
             \/ (Entries[k].type = GIT_OBJ_BLOB /\ Entries[k].is_binary)) =>
              /\ Entries[k].path \notin BlamedPaths
              /\ Entries[k].path \notin RowPaths
              /\ k = Len(Visited) => pc \in {"walk", "done"}

\* C5, the case: a submodule, then a text blob that gets its row.
C5_Witness ==
    /\ pc = "done"
    /\ Len(Visited) = 2
    /\ Entries[1].type = GIT_OBJ_COMMIT
    /\ RowPaths = {Entries[2].path}

\* C6: an entry of unknown kind, at any depth, ends the run with an
\* exception: it is the last entry taken in hand, every row is the row of an
\* entry before it, and nothing more is written.
C6_UnknownKindAborts ==
    /\ VisitedInOrder
    /\ \A k \in 1..Len(Visited) :
          Entries[k].type \notin {GIT_OBJ_TREE, GIT_OBJ_COMMIT, GIT_OBJ_BLOB} =>
              /\ pc = "raised"
              /\ exc = "Exception"
              /\ ExitCode = 1
              /\ k = Len(Visited)
              /\ RowPaths \subseteq {Entries[j].path : j \in 1..(k - 1)}
              /\ ~ENABLED Next

C6_Witness ==
    /\ pc = "raised"
    /\ exc = "Exception"
    /\ Len(stack) = 2
    /\ Len(out) = 1

\* C7: the date mode is a date bucket whose count no other date bucket of
\* the file exceeds, and the author mode an author whose count no other
\* author of the file exceeds, the counts being lines.
ModeOf(counter, key) ==
    /\ key \in CounterKeys(counter)
    /\ \A other \in CounterKeys(counter) : CountOf(counter, other) <= CountOf(counter, key)

C7_ModeIsLargestBucket ==
    /\ AtRow =>
          /\ ModeOf(top.authors, top.author_mode)
          /\ \E d \in CounterKeys(top.dates) :
                ModeOf(top.dates, d) /\ top.date_mode = FromOrdinal(d)
          /\ \A a \in CounterKeys(top.authors) :
                CountOf(top.authors, a) =
                    CreditedLines(SelectSeq(credited, LAMBDA c : c.author = a))
          /\ \A d \in CounterKeys(top.dates) :
                CountOf(top.dates, d) =
                    CreditedLines(SelectSeq(credited, LAMBDA c : c.date = d))
    /\ RowIsStatistics

\* C7, the case: one hunk of 6 lines by "a", then two hunks of 2 lines by "b".
C7_Witness ==
    /\ AtRow
    /\ attribution = <<[commit |-> "c1", num_lines |-> 6],
                       [commit |-> "c2", num_lines |-> 2],
                       [commit |-> "c2", num_lines |-> 2]>>
    /\ top.author_mode = "a"
    /\ top.date_mode = [year |-> 1970, month |-> 1, day |-> 2]

\* C8 as stated: the mean reported is the exact mean of the date buckets over
\* the lines, nothing cut off.
C8_MeanIsExact ==
    AtRow =>
        LET q == CreditedDateSum(credited) \div CreditedLines(credited)
        IN  /\ q * CreditedLines(credited) = CreditedDateSum(credited)
            /\ top.date_mean = FromOrdinal(q)

\* C8: the mean reported is the calendar date at the integer part of the
\* exact mean of the date buckets credited, weighted by lines.
C8_MeanIsTruncated ==
    /\ AtRow =>
          top.date_mean =
              FromOrdinal(CreditedDateSum(credited) \div CreditedLines(credited))
    /\ RowIsStatistics

\* C8, the case: 6 lines on 1970-01-02 and 4 lines on 1970-01-06, whose mean
\* is 2.6 days after 1970-01-01, are reported as 1970-01-03.
C8_Witness ==
    /\ AtRow
    /\ CreditedLines(credited) = 10
    /\ CreditedLines(SelectSeq(credited, LAMBDA c : c.date = 719164)) = 6
    /\ CreditedLines(SelectSeq(credited, LAMBDA c : c.date = 719168)) = 4
    /\ top.date_mean = [year |-> 1970, month |-> 1, day |-> 3]

\* C9: the mean date reported is not before the earliest and not after the
\* latest date of the commits of the file's hunks.
OwnDates == {OwnDate(attribution[i]) : i \in 1..Len(attribution)}

C9_MeanWithinRange ==
    /\ AtRow =>
          /\ \E lo \in OwnDates :
                /\ \A d \in OwnDates : lo <= d
                /\ DateLE(FromOrdinal(lo), top.date_mean)
          /\ \E hi \in OwnDates :
                /\ \A d \in OwnDates : d <= hi
                /\ DateLE(top.date_mean, FromOrdinal(hi))
    /\ RowIsStatistics

C9_Witness ==
    /\ AtRow
    /\ Cardinality(OwnDates) = 3
    /\ top.date_mean = [year |-> 1970, month |-> 1, day |-> 3]

\* C10: the statistics of a file are those of its attribution sequence
\* aggregated alone, from fresh counters and unbound locals, whatever files
\* the walk has processed before it.
RECURSIVE ParseAll(_, _)
ParseAll(f, lines) ==
    IF lines = <<>> THEN f ELSE ParseAll(ParseLine(f, Head(lines)), Tail(lines))

RECURSIVE AddAll(_, _)
AddAll(f, hunks) ==
    IF hunks = <<>> THEN f ELSE AddAll(AddHunk(f, Head(hunks)), Tail(hunks))

Alone(hunks) ==
    LET f == Activation(<<>>, "")
    IN  Statistics(IF variant = "hybrid" THEN ParseAll(f, Incremental(hunks))
                   ELSE AddAll(f, hunks))

C10_SummaryOfSequenceAlone ==
    /\ AtRow =>
          /\ attribution # <<>>
          /\ top.date_mean = Alone(attribution).date_mean
          /\ top.date_mode = Alone(attribution).date_mode
          /\ top.author_mode = Alone(attribution).author_mode
    /\ RowIsStatistics

\* C10, the case: the second file of a directory, after a first file of the
\* same directory with another author mode and other counts.
C10_Witness ==
    /\ AtRow
    /\ variant = "hybrid"
    /\ top.i = 2
    /\ out # <<>>
    /\ Last(out).path = PathJoin(top.parent_dirs, top.tree[1].name)
    /\ Last(out).author_mode # top.author_mode
    /\ Last(out).date_mean # top.date_mean

\* C11: when several authors, or several date buckets, share the largest
\* count, the mode reported is the one of them that was credited first in
\* the order of the stream, whatever its value.
CreditedAuthors == {credited[i].author : i \in 1..Len(credited)}
CreditedDates == {credited[i].date : i \in 1..Len(credited)}

AuthorLines(a) == CreditedLines(SelectSeq(credited, LAMBDA c : c.author = a))
DateLines(d) == CreditedLines(SelectSeq(credited, LAMBDA c : c.date = d))

FirstAuthorCredit(a) ==
    CHOOSE i \in 1..Len(credited) :
        /\ credited[i].author = a
        /\ \A j \in 1..(i - 1) : credited[j].author # a

FirstDateCredit(d) ==
    CHOOSE i \in 1..Len(credited) :
        /\ credited[i].date = d
        /\ \A j \in 1..(i - 1) : credited[j].date # d

C11_TieGoesToFirstCredited ==
    /\ AtRow =>
          /\ top.author_mode \in CreditedAuthors
          /\ \A a \in CreditedAuthors :
                \/ AuthorLines(a) < AuthorLines(top.author_mode)
                \/ /\ AuthorLines(a) = AuthorLines(top.author_mode)
                   /\ FirstAuthorCredit(top.author_mode) <= FirstAuthorCredit(a)
          /\ \E m \in CreditedDates :
                /\ top.date_mode = FromOrdinal(m)
                /\ \A d \in CreditedDates :
                      \/ DateLines(d) < DateLines(m)
                      \/ /\ DateLines(d) = DateLines(m)
                         /\ FirstDateCredit(m) <= FirstDateCredit(d)
    /\ RowIsStatistics

\* C11, the case: 2 lines of the later commit by "b", then 2 lines of the
\* earlier commit by "a": the mode is the later date and "b".
C11_Witness ==
    /\ AtRow
    /\ attribution = <<[commit |-> "c2", num_lines |-> 2],
                       [commit |-> "c1", num_lines |-> 2]>>
    /\ top.author_mode = "b"
    /\ top.date_mode = [year |-> 1970, month |-> 1, day |-> 6]

\* C12: the rows written are, in order, one row per text blob with at least
\* one attributed line, in the depth-first enumeration order of the tree,
\* each under the path that joins its ancestors' names and its own; a run
\* that returns has written them all, and no step alters or removes a row
\* once written.
PathsOf(seq) == [i \in 1..Len(seq) |-> seq[i].path]

IsText(e) == e.type = GIT_OBJ_BLOB /\ ~e.is_binary
HasLines(b) == b.lines > 0

\* The text blobs among the entries taken in hand so far, in depth-first order.
TextVisited == SelectSeq(SubSeq(Entries, 1, Len(Visited)), IsText)

\* The calls of the attribution source that reported at least one line.
Attributed == SelectSeq(blamed, HasLines)

RowsInDepthFirstOrder ==
    /\ VisitedInOrder
    /\ PathsOf(blamed) = PathsOf(TextVisited)
    /\ Len(out) <= Len(Attributed)
    /\ PathsOf(out) = SubSeq(PathsOf(Attributed), 1, Len(out))
    /\ Len(Attributed) <= Len(out) + 1
    /\ pc \in {"walk", "done"} => Len(out) = Len(Attributed)

RowsAppendOnly ==
    /\ Len(out) <= Len(out')
    /\ SubSeq(out', 1, Len(out)) = out

C12_RowsAreDepthFirstTextBlobs ==
    /\ []RowsInDepthFirstOrder
    /\ [][RowsAppendOnly]_vars

\* C12, the case: a text blob inside the first directory and a text blob
\* after that directory, both with lines: two rows, the nested one first.
C12_Witness ==
    /\ pc = "done"
    /\ Len(Entries) = 3
    /\ PathsOf(out) = <<"a/a", "b">>

====
